---- MODULE Spec2Model ----
(***************************************************************************)
(* Rule engine of yinsh-rs: the reversible command set (core/actions.rs)   *)
(* and the game state with its history (core/state.rs).  The board and the *)
(* hex coordinate geometry (core/board.rs, common/coord.rs) are modelled   *)
(* from the specification, sections 3, 4.1 and 4.2.                        *)
(***************************************************************************)
EXTENDS Integers, Sequences, FiniteSets, TLC

\* Board radius of the model and the longest history explored.
Radius == 3
MaxHistory == 9

\* The longest history explored from the start of a match.
MaxSetupHistory == 11

\* The most commands the driver applies without an undo between them.
MaxDriver == 7

\* Number of cells of the row on which boards are built piece by piece.
MaxEdit == 7

\* Commands applied in a match driven through the view.
MaxView == 5

(***************************************************************************)
(* Entities and coordinates                                                *)
(***************************************************************************)
Players == {"White", "Black"}

other(p) == IF p = "White" THEN "Black" ELSE "White"

Ring(p) == [kind |-> "Ring", owner |-> p]

Marker(p) == [kind |-> "Marker", owner |-> p]

None == [kind |-> "None", owner |-> "None"]

Abs(x) == IF x < 0 THEN -x ELSE x

Max(a, b) == IF a < b THEN b ELSE a

\* Hex distance of an axial coordinate from the centre.
Dist(c) == Max(Max(Abs(c[1]), Abs(c[2])), Abs(c[1] + c[2]))

IsValid(c) == Dist(c) <= Radius

Span == (0 - (Radius + 1)) .. (Radius + 1)

Coords == {c \in Span \X Span : IsValid(c)}

\* Two coordinates outside the radius, on grid lines through the board.
OffBoard == {<<Radius + 1, 0>>, <<0 - (Radius + 1), Radius + 1>>}

\* Every coordinate a caller hands to the engine.
Inputs == Coords \cup OffBoard

Key(c) == (c[1] + Radius + 1) * (2 * Radius + 3) + (c[2] + Radius + 1)

\* The coordinates of S in the order of their keys.
SortCoords(S) ==
    [i \in 1 .. Cardinality(S) |->
        CHOOSE x \in S : Cardinality({y \in S : Key(y) < Key(x)}) = i - 1]

Add(c, d) == <<c[1] + d[1], c[2] + d[2]>>

Times(k, d) == <<k * d[1], k * d[2]>>

Directions == << <<1, 0>>, <<-1, 0>>, <<0, 1>>, <<0, -1>>, <<1, -1>>, <<-1, 1>> >>

Axes == << <<1, 0>>, <<0, 1>>, <<1, -1>> >>

(***************************************************************************)
(* Board: a sparse map from coordinate to piece                            *)
(***************************************************************************)
board_coords == SortCoords(Coords)

occupied(b, pos) == IF pos \in DOMAIN b THEN b[pos] ELSE None

free_board_field(b, pos) == IsValid(pos) /\ occupied(b, pos) = None

place_unchecked(b, piece, pos) ==
    [c \in (DOMAIN b) \cup {pos} |-> IF c = pos THEN piece ELSE b[c]]

remove(b, pos) == [c \in (DOMAIN b) \ {pos} |-> b[c]]

player_ring_at(b, pos, p) == occupied(b, pos) = Ring(p)

player_marker_at(b, pos, p) == occupied(b, pos) = Marker(p)

rings(b) == {c \in DOMAIN b : b[c].kind = "Ring"}

markers(b) == {c \in DOMAIN b : b[c].kind = "Marker"}

player_rings(b, p) == SortCoords({c \in DOMAIN b : b[c] = Ring(p)})

player_markers(b, p) == {c \in DOMAIN b : b[c] = Marker(p)}

\* One direction of ring_targets: st is "start" before any marker, "jump"
\* inside the jumped marker run, "landed" once past it.
\* Walk taking the cells of the jumped markers for targets.
RECURSIVE Walk_onmarkers(_, _, _, _)
Walk_onmarkers(b, c, d, st) ==
    IF ~IsValid(c) THEN <<>>
    ELSE LET p == occupied(b, c)
         IN CASE p.kind = "None" ->
                   <<c>> \o Walk_onmarkers(b, Add(c, d), d,
                                 IF st = "start" THEN "start" ELSE "landed")
              [] p.kind = "Ring" -> <<>>
              [] OTHER ->
                   IF st = "landed" THEN <<>>
                   ELSE <<c>> \o Walk_onmarkers(b, Add(c, d), d, "jump")

\* Walk forgetting that a row of markers has been jumped.
RECURSIVE Walk_tworuns(_, _, _, _)
Walk_tworuns(b, c, d, st) ==
    IF ~IsValid(c) THEN <<>>
    ELSE LET p == occupied(b, c)
         IN CASE p.kind = "None" ->
                   <<c>> \o Walk_tworuns(b, Add(c, d), d, "start")
              [] p.kind = "Ring" -> <<>>
              [] OTHER -> Walk_tworuns(b, Add(c, d), d, "jump")

\* Walk going one cell beyond the edge of the board.
RECURSIVE Walk_wide(_, _, _, _)
Walk_wide(b, c, d, st) ==
    IF Dist(c) > Radius + 1 THEN <<>>
    ELSE LET p == occupied(b, c)
         IN CASE p.kind = "None" ->
                   <<c>> \o Walk_wide(b, Add(c, d), d,
                                 IF st = "start" THEN "start" ELSE "landed")
              [] p.kind = "Ring" -> <<>>
              [] OTHER ->
                   IF st = "landed" THEN <<>>
                   ELSE Walk_wide(b, Add(c, d), d, "jump")

RECURSIVE Walk(_, _, _, _)
Walk(b, c, d, st) ==
    IF ~IsValid(c) THEN <<>>
    ELSE LET p == occupied(b, c)
         IN CASE p.kind = "None" ->
                   <<c>> \o Walk(b, Add(c, d), d,
                                 IF st = "start" THEN "start" ELSE "landed")
              [] p.kind = "Ring" -> <<>>
              [] OTHER ->
                   IF st = "landed" THEN <<>> ELSE Walk(b, Add(c, d), d, "jump")

RECURSIVE TargetsFrom(_, _, _)
TargetsFrom(b, from, i) ==
    IF i > Len(Directions) THEN <<>>
    ELSE Walk(b, Add(from, Directions[i]), Directions[i], "start")
         \o TargetsFrom(b, from, i + 1)

ring_targets(b, from) == TargetsFrom(b, from, 1)

\* The cells strictly between two coordinates of one grid line.
Steps(from, x) == {Add(from, Times(k, Directions[x[1]])) : k \in 1 .. (x[2] - 1)}

FirstStepsOf(from, hits) ==
    IF hits = {} THEN {} ELSE Steps(from, CHOOSE y \in hits : TRUE)

Between(from, to) ==
    FirstStepsOf(from, {x \in (1 .. Len(Directions)) \X (1 .. (2 * Radius + 2)) :
                           Add(from, Times(x[2], Directions[x[1]])) = to})

\* flip_cells toggling the owner of rings as well.
flip_cells_rings(b, mid) ==
    [c \in DOMAIN b |->
        IF c \in mid THEN [kind |-> b[c].kind, owner |-> other(b[c].owner)]
        ELSE b[c]]

\* The board with the owner of every marker on the cells mid toggled.
flip_cells(b, mid) ==
    [c \in DOMAIN b |->
        IF c \in mid /\ b[c].kind = "Marker" THEN Marker(other(b[c].owner))
        ELSE b[c]]

flip_between(b, from, to) == flip_cells(b, Between(from, to))

RunCells(start, axis) == [k \in 1 .. 5 |-> Add(start, Times(k - 1, axis))]

\* IsRun asking for four markers only.
IsRun_four(b, p, start, axis) ==
    /\ \A k \in 0 .. 3 : player_marker_at(b, Add(start, Times(k, axis)), p)
    /\ ~player_marker_at(b, Add(start, Times(-1, axis)), p)
    /\ ~player_marker_at(b, Add(start, Times(5, axis)), p)

\* A maximal line of exactly five markers of p starting at start along axis.
IsRun(b, p, start, axis) ==
    /\ \A k \in 0 .. 4 : player_marker_at(b, Add(start, Times(k, axis)), p)
    /\ ~player_marker_at(b, Add(start, Times(-1, axis)), p)
    /\ ~player_marker_at(b, Add(start, Times(5, axis)), p)

RunCandidates ==
    [i \in 1 .. (Len(Axes) * Len(board_coords)) |->
        <<board_coords[((i - 1) % Len(board_coords)) + 1],
          Axes[((i - 1) \div Len(board_coords)) + 1]>>]

RunsAt(sel) == [i \in 1 .. Len(sel) |-> RunCells(sel[i][1], sel[i][2])]

runs(b, p) ==
    RunsAt(SelectSeq(RunCandidates, LAMBDA x : IsRun(b, p, x[1], x[2])))

(***************************************************************************)
(* State (core/state.rs)                                                   *)
(***************************************************************************)
\* The fields of State; the last call made on it and the value it returned;
\* and, for every command applied and not undone, the core of the state it
\* was executed in (a history variable of the model, not a field of State).
VARIABLES board, current_player, current_phase, points_white, points_black,
          runs_white, runs_black, history, last_state_change, last_call, ret,
          before

\* The fields of Frontend that its tick reads and writes: ui_status,
\* update_request and, for the elements of its controller, whether one of them
\* carries an animation that has not finished; the UiAction the last tick of
\* the view returned; and whether that tick rebuilt the elements from the
\* state (a history variable of the model).
VARIABLES ui_status, update_request, animating, ui_action, updated

view == <<ui_status, update_request, animating, ui_action, updated>>

\* The fields of State that commands read and write.
core == <<board, current_player, current_phase, points_white, points_black>>

caches == <<runs_white, runs_black>>

vars == <<board, current_player, current_phase, points_white, points_black,
          runs_white, runs_black, history, last_state_change, last_call, ret,
          before, ui_status, update_request, animating, ui_action, updated>>

PhasePlaceRing == [name |-> "PlaceRing"]

PhasePlaceMarker == [name |-> "PlaceMarker"]

PhaseMoveRing(c) == [name |-> "MoveRing", origin |-> c]

PhaseRemoveRun == [name |-> "RemoveRun"]

PhaseRemoveRing == [name |-> "RemoveRing"]

PhasePlayerWon(p) == [name |-> "PlayerWon", player |-> p]

\* The State value the commands work on.
Game == [board |-> board, current_player |-> current_player,
         current_phase |-> current_phase,
         points_white |-> points_white, points_black |-> points_black,
         runs_white |-> runs_white, runs_black |-> runs_black,
         history |-> history, last_state_change |-> last_state_change]

current_player_runs(g) ==
    IF g.current_player = "Black" THEN g.runs_black ELSE g.runs_white

next_player(g) == [g EXCEPT !.current_player = other(g.current_player)]

set_phase(g, phase) == [g EXCEPT !.current_phase = phase]

at_phase(g, phase) == g.current_phase = phase

compute_runs(g) ==
    [g EXCEPT !.runs_white = runs(g.board, "White"),
              !.runs_black = runs(g.board, "Black")]

has_run(g, p) ==
    IF p = "White" THEN Len(g.runs_white) > 0 ELSE Len(g.runs_black) > 0

is_valid_run(g, p, run) ==
    IF p = "White" THEN \E i \in 1 .. Len(g.runs_white) : g.runs_white[i] = run
    ELSE \E i \in 1 .. Len(g.runs_black) : g.runs_black[i] = run

inc_score(g, p) ==
    IF p = "White" THEN [g EXCEPT !.points_white = g.points_white + 1]
    ELSE [g EXCEPT !.points_black = g.points_black + 1]

dec_score(g, p) ==
    IF p = "White" THEN [g EXCEPT !.points_white = g.points_white - 1]
    ELSE [g EXCEPT !.points_black = g.points_black - 1]

get_score(g, p) == IF p = "White" THEN g.points_white ELSE g.points_black

won_by(g) ==
    IF g.current_phase.name = "PlayerWon" THEN {g.current_phase.player} ELSE {}

(***************************************************************************)
(* Commands (core/actions.rs)                                              *)
(***************************************************************************)
PlaceRing(pos) == [type |-> "PlaceRing", pos |-> pos]

PlaceMarker(pos) == [type |-> "PlaceMarker", pos |-> pos]

MoveRing(from, to, player) ==
    [type |-> "MoveRing", from |-> from, to |-> to, player |-> player]

RemoveRun(run_idx, run, pos) ==
    [type |-> "RemoveRun", run_idx |-> run_idx, run |-> run, pos |-> pos]

RemoveRing(pos, player) == [type |-> "RemoveRing", pos |-> pos, player |-> player]

PlaceRing_is_legal_nofree(cmd, g) ==
    at_phase(g, PhasePlaceRing) /\ IsValid(cmd.pos)

PlaceRing_is_legal(cmd, g) ==
    at_phase(g, PhasePlaceRing) /\ free_board_field(g.board, cmd.pos)

PlaceRing_next_nine(g1) ==
    next_player(IF Cardinality(rings(g1.board)) >= 9
                THEN set_phase(g1, PhasePlaceMarker) ELSE g1)

PlaceRing_next_ten(g1) ==
    next_player(IF Cardinality(rings(g1.board)) > 10
                THEN set_phase(g1, PhasePlaceMarker) ELSE g1)

\* PlaceRing::execute once the ring is on the board.
PlaceRing_next(g1) ==
    next_player(IF Cardinality(rings(g1.board)) > 9
                THEN set_phase(g1, PhasePlaceMarker) ELSE g1)

PlaceRing_execute(cmd, g) ==
    PlaceRing_next([g EXCEPT !.board =
                       place_unchecked(g.board, Ring(g.current_player), cmd.pos)])

PlaceRing_undo(cmd, g) ==
    next_player(set_phase([g EXCEPT !.board = remove(g.board, cmd.pos)],
                          PhasePlaceRing))

PlaceMarker_is_legal_anyring(cmd, g) ==
    at_phase(g, PhasePlaceMarker) /\ cmd.pos \in rings(g.board)

PlaceMarker_is_legal(cmd, g) ==
    at_phase(g, PhasePlaceMarker)
    /\ player_ring_at(g.board, cmd.pos, g.current_player)

PlaceMarker_execute(cmd, g) ==
    set_phase([g EXCEPT !.board =
                   place_unchecked(g.board, Marker(g.current_player), cmd.pos)],
              PhaseMoveRing(cmd.pos))

PlaceMarker_undo(cmd, g) ==
    set_phase([g EXCEPT !.board =
                   place_unchecked(g.board, Ring(g.current_player), cmd.pos)],
              PhasePlaceMarker)

Contains(seq, x) == \E i \in 1 .. Len(seq) : seq[i] = x

\* MoveRing_is_legal without the test of the phase.
MoveRing_is_legal_nophase(cmd, g) ==
    Contains(ring_targets(g.board, cmd.from), cmd.to)

MoveRing_is_legal(cmd, g) ==
    IF ~at_phase(g, PhaseMoveRing(cmd.from)) THEN FALSE
    ELSE Contains(ring_targets(g.board, cmd.from), cmd.to)

\* MoveRing_next looking at the opponent's runs before the mover's.
MoveRing_next_opponent_first(g1) ==
    IF Len(runs(g1.board, other(g1.current_player))) > 0
    THEN next_player(set_phase(g1, PhaseRemoveRun))
    ELSE IF Len(runs(g1.board, g1.current_player)) > 0
         THEN set_phase(g1, PhaseRemoveRun)
         ELSE next_player(set_phase(g1, PhasePlaceMarker))

\* The phase and turn MoveRing::execute selects once the runs are recomputed.
MoveRing_next(g1) ==
    IF Len(runs(g1.board, g1.current_player)) > 0
    THEN set_phase(g1, PhaseRemoveRun)
    ELSE IF Len(runs(g1.board, other(g1.current_player))) > 0
         THEN next_player(set_phase(g1, PhaseRemoveRun))
         ELSE next_player(set_phase(g1, PhasePlaceMarker))

\* MoveRing_execute without the call of flip_between.
MoveRing_execute_noflip(cmd, g) ==
    MoveRing_next(compute_runs(
        [g EXCEPT !.board =
            place_unchecked(g.board, Ring(g.current_player), cmd.to)]))

MoveRing_execute(cmd, g) ==
    MoveRing_next(compute_runs(
        [g EXCEPT !.board =
            flip_between(place_unchecked(g.board, Ring(g.current_player), cmd.to),
                         cmd.from, cmd.to)]))

\* MoveRing_undo without the call of flip_between.
MoveRing_undo_noflip(cmd, g) ==
    compute_runs([g EXCEPT !.board = remove(g.board, cmd.to),
                           !.current_player = cmd.player,
                           !.current_phase = PhaseMoveRing(cmd.from)])

\* MoveRing_undo leaving the turn with the player it passed to.
MoveRing_undo_keepplayer(cmd, g) ==
    compute_runs([g EXCEPT !.board = flip_between(remove(g.board, cmd.to),
                                                  cmd.from, cmd.to),
                           !.current_phase = PhaseMoveRing(cmd.from)])

MoveRing_undo(cmd, g) ==
    compute_runs([g EXCEPT !.board = flip_between(remove(g.board, cmd.to),
                                                  cmd.from, cmd.to),
                           !.current_player = cmd.player,
                           !.current_phase = PhaseMoveRing(cmd.from)])

RECURSIVE RemoveAll(_, _, _)
RemoveAll(b, run, i) ==
    IF i > Len(run) THEN b ELSE RemoveAll(remove(b, run[i]), run, i + 1)

RECURSIVE PlaceAll(_, _, _, _)
PlaceAll(b, piece, run, i) ==
    IF i > Len(run) THEN b
    ELSE PlaceAll(place_unchecked(b, piece, run[i]), piece, run, i + 1)

\* RemoveRun_is_legal without the test of the phase.
RemoveRun_is_legal_nophase(cmd, g) ==
    is_valid_run(g, g.current_player, cmd.run)

RemoveRun_is_legal(cmd, g) ==
    at_phase(g, PhaseRemoveRun) /\ is_valid_run(g, g.current_player, cmd.run)

\* RemoveRun_execute without the call of compute_runs.
RemoveRun_execute_stale(cmd, g) ==
    set_phase([g EXCEPT !.board = RemoveAll(g.board, cmd.run, 1)],
              PhaseRemoveRing)

RemoveRun_execute(cmd, g) ==
    set_phase(compute_runs([g EXCEPT !.board = RemoveAll(g.board, cmd.run, 1)]),
              PhaseRemoveRing)

RemoveRun_undo(cmd, g) ==
    compute_runs([g EXCEPT !.current_phase = PhaseRemoveRun,
                           !.board = PlaceAll(g.board, Marker(g.current_player),
                                              cmd.run, 1)])

\* RemoveRing_is_legal without the test of the command's player.
RemoveRing_is_legal_noplayer(cmd, g) ==
    /\ at_phase(g, PhaseRemoveRing)
    /\ player_ring_at(g.board, cmd.pos, g.current_player)

\* RemoveRing_is_legal without the test of the phase.
RemoveRing_is_legal_nophase(cmd, g) ==
    /\ player_ring_at(g.board, cmd.pos, g.current_player)
    /\ g.current_player = cmd.player

RemoveRing_is_legal(cmd, g) ==
    /\ at_phase(g, PhaseRemoveRing)
    /\ player_ring_at(g.board, cmd.pos, g.current_player)
    /\ g.current_player = cmd.player

\* The phase and turn RemoveRing::execute selects once the turn has passed.
RemoveRing_passed(g2) ==
    IF has_run(g2, g2.current_player) THEN set_phase(g2, PhaseRemoveRun)
    ELSE set_phase(g2, PhasePlaceMarker)

\* RemoveRing_next passing the turn without looking at the acting player's runs.
RemoveRing_next_pass(g1, p) ==
    IF get_score(g1, p) = 3 THEN set_phase(g1, PhasePlayerWon(p))
    ELSE RemoveRing_passed(next_player(g1))

\* RemoveRing_next looking at the pending runs before the score.
RemoveRing_next_runs_first(g1, p) ==
    IF has_run(g1, g1.current_player) THEN set_phase(g1, PhaseRemoveRun)
    ELSE IF has_run(g1, other(g1.current_player)) \/ get_score(g1, p) # 3
         THEN RemoveRing_passed(next_player(g1))
         ELSE set_phase(g1, PhasePlayerWon(p))

\* RemoveRing::execute once the ring is off the board and the point counted.
RemoveRing_next(g1, p) ==
    IF get_score(g1, p) = 3 THEN set_phase(g1, PhasePlayerWon(p))
    ELSE IF has_run(g1, g1.current_player) THEN set_phase(g1, PhaseRemoveRun)
    ELSE RemoveRing_passed(next_player(g1))

RemoveRing_execute(cmd, g) ==
    RemoveRing_next(inc_score([g EXCEPT !.board = remove(g.board, cmd.pos)],
                              g.current_player),
                    g.current_player)

\* RemoveRing_undo without the call of dec_score.
RemoveRing_undo_nodec(cmd, g) ==
    [g EXCEPT
        !.current_player = cmd.player,
        !.current_phase = PhaseRemoveRing,
        !.board = place_unchecked(g.board, Ring(cmd.player), cmd.pos)]

\* RemoveRing_undo taking the point from the other player.
RemoveRing_undo_decother(cmd, g) ==
    [dec_score(g, other(cmd.player)) EXCEPT
        !.current_player = cmd.player,
        !.current_phase = PhaseRemoveRing,
        !.board = place_unchecked(g.board, Ring(cmd.player), cmd.pos)]

RemoveRing_undo(cmd, g) ==
    [dec_score(g, cmd.player) EXCEPT
        !.current_player = cmd.player,
        !.current_phase = PhaseRemoveRing,
        !.board = place_unchecked(g.board, Ring(cmd.player), cmd.pos)]

\* Dispatch of the Command trait over the Action enum.
is_legal(cmd, g) ==
    CASE cmd.type = "PlaceRing" -> PlaceRing_is_legal(cmd, g)
      [] cmd.type = "PlaceMarker" -> PlaceMarker_is_legal(cmd, g)
      [] cmd.type = "MoveRing" -> MoveRing_is_legal(cmd, g)
      [] cmd.type = "RemoveRun" -> RemoveRun_is_legal(cmd, g)
      [] cmd.type = "RemoveRing" -> RemoveRing_is_legal(cmd, g)

execute(cmd, g) ==
    CASE cmd.type = "PlaceRing" -> PlaceRing_execute(cmd, g)
      [] cmd.type = "PlaceMarker" -> PlaceMarker_execute(cmd, g)
      [] cmd.type = "MoveRing" -> MoveRing_execute(cmd, g)
      [] cmd.type = "RemoveRun" -> RemoveRun_execute(cmd, g)
      [] cmd.type = "RemoveRing" -> RemoveRing_execute(cmd, g)

undo(cmd, g) ==
    CASE cmd.type = "PlaceRing" -> PlaceRing_undo(cmd, g)
      [] cmd.type = "PlaceMarker" -> PlaceMarker_undo(cmd, g)
      [] cmd.type = "MoveRing" -> MoveRing_undo(cmd, g)
      [] cmd.type = "RemoveRun" -> RemoveRun_undo(cmd, g)
      [] cmd.type = "RemoveRing" -> RemoveRing_undo(cmd, g)

\* The anchor coordinate of a command.
coord(cmd) == IF cmd.type = "MoveRing" THEN cmd.to ELSE cmd.pos

(***************************************************************************)
(* The change log a command hands back (events of StateChange)             *)
(***************************************************************************)
RECURSIVE EventsFor(_, _, _, _)
EventsFor(tag, p, cells, i) ==
    IF i > Len(cells) THEN <<>>
    ELSE <<(IF p = "" THEN <<tag, cells[i]>> ELSE <<tag, p, cells[i]>>)>>
         \o EventsFor(tag, p, cells, i + 1)

Flipped(b, from, to) ==
    SortCoords({c \in Between(from, to) : occupied(b, c).kind = "Marker"})

execute_log(cmd, g) ==
    LET p == g.current_player
    IN CASE cmd.type = "PlaceRing" -> << <<"RingPlaced", p, cmd.pos>> >>
         [] cmd.type = "PlaceMarker" -> << <<"MarkerPlaced", p, cmd.pos>> >>
         [] cmd.type = "MoveRing" ->
              << <<"RingMoved", p, cmd.from, cmd.to>> >>
              \o EventsFor("MarkerFlipped", "", Flipped(g.board, cmd.from, cmd.to), 1)
         [] cmd.type = "RemoveRun" -> EventsFor("MarkerRemoved", p, cmd.run, 1)
         [] cmd.type = "RemoveRing" -> << <<"RingRemoved", p, cmd.pos>> >>

undo_log(cmd, g) ==
    CASE cmd.type = "PlaceRing" ->
           << <<"RingRemoved", other(g.current_player), cmd.pos>> >>
      [] cmd.type = "PlaceMarker" ->
           << <<"MarkerRemoved", g.current_player, cmd.pos>>,
              <<"RingPlaced", g.current_player, cmd.pos>> >>
      [] cmd.type = "MoveRing" ->
           << <<"RingMoved", cmd.player, cmd.to, cmd.from>> >>
           \o EventsFor("MarkerFlipped", "", Flipped(g.board, cmd.from, cmd.to), 1)
      [] cmd.type = "RemoveRun" ->
           EventsFor("MarkerPlaced", g.current_player, cmd.run, 1)
      [] cmd.type = "RemoveRing" -> << <<"RingPlaced", cmd.player, cmd.pos>> >>

(***************************************************************************)
(* State::legal_moves, State::execute_for_coord, State::undo               *)
(***************************************************************************)
PlaceRingMoves(free) == [i \in 1 .. Len(free) |-> PlaceRing(free[i])]

\* PlaceMarkerMoves leaving out the first ring.
PlaceMarkerMoves_skipfirst(r) ==
    [i \in 1 .. Len(r) - 1 |-> PlaceMarker(r[i + 1])]

PlaceMarkerMoves(r) == [i \in 1 .. Len(r) |-> PlaceMarker(r[i])]

MoveRingMoves(from, t, p) == [i \in 1 .. Len(t) |-> MoveRing(from, t[i], p)]

RemoveRunMoves(rs) == [i \in 1 .. Len(rs) |-> RemoveRun(i - 1, rs[i], rs[i][1])]

\* RemoveRingMoves naming the player who is not to move.
RemoveRingMoves_other(r, p) ==
    [i \in 1 .. Len(r) |-> RemoveRing(r[i], other(p))]

RemoveRingMoves(r, p) == [i \in 1 .. Len(r) |-> RemoveRing(r[i], p)]

legal_moves(g) ==
    CASE g.current_phase.name = "PlaceRing" ->
           PlaceRingMoves(SelectSeq(board_coords,
                                    LAMBDA c : occupied(g.board, c) = None))
      [] g.current_phase.name = "PlaceMarker" ->
           PlaceMarkerMoves(player_rings(g.board, g.current_player))
      [] g.current_phase.name = "MoveRing" ->
           MoveRingMoves(g.current_phase.origin,
                         ring_targets(g.board, g.current_phase.origin),
                         g.current_player)
      [] g.current_phase.name = "RemoveRun" ->
           RemoveRunMoves(current_player_runs(g))
      [] g.current_phase.name = "RemoveRing" ->
           RemoveRingMoves(player_rings(g.board, g.current_player),
                           g.current_player)
      [] OTHER -> <<>>

\* The first command of lm anchored at c, as a sequence of length <= 1.
FirstOf(lm, idx) ==
    IF idx = {} THEN <<>> ELSE <<lm[CHOOSE i \in idx : \A j \in idx : i <= j]>>

find_move(lm, c) == FirstOf(lm, {i \in 1 .. Len(lm) : coord(lm[i]) = c})

\* execute_found resetting the change log when no command is found.
execute_found_clearlog(g, found) ==
    IF found = <<>>
    THEN [state |-> [g EXCEPT !.last_state_change = <<>>], ret |-> FALSE]
    ELSE IF ~is_legal(found[1], g) THEN [state |-> g, ret |-> FALSE]
    ELSE [state |-> [execute(found[1], g) EXCEPT
                       !.last_state_change = execute_log(found[1], g),
                       !.history = Append(g.history, found[1])],
          ret |-> TRUE]

\* execute_found without the push on the history.
execute_found_nopush(g, found) ==
    IF found = <<>> THEN [state |-> g, ret |-> FALSE]
    ELSE IF ~is_legal(found[1], g) THEN [state |-> g, ret |-> FALSE]
    ELSE [state |-> [execute(found[1], g) EXCEPT
                       !.last_state_change = execute_log(found[1], g)],
          ret |-> TRUE]

\* execute_for_coord once the enumeration has been searched: the state after
\* the call and the value returned.
execute_found(g, found) ==
    IF found = <<>> THEN [state |-> g, ret |-> FALSE]
    ELSE IF ~is_legal(found[1], g) THEN [state |-> g, ret |-> FALSE]
    ELSE [state |-> [execute(found[1], g) EXCEPT
                       !.last_state_change = execute_log(found[1], g),
                       !.history = Append(g.history, found[1])],
          ret |-> TRUE]

execute_for_coord(g, c) == execute_found(g, find_move(legal_moves(g), c))

\* State::undo once m has been popped off the history of g0.
undo_popped(m, g0) ==
    [state |-> [undo(m, g0) EXCEPT !.last_state_change = undo_log(m, g0)],
     ret |-> TRUE]

\* state_undo reporting an undo on an empty history.
state_undo_true(g) ==
    IF Len(g.history) > 0
    THEN undo_popped(g.history[Len(g.history)],
                     [g EXCEPT !.history = SubSeq(g.history, 1, Len(g.history) - 1)])
    ELSE [state |-> g, ret |-> TRUE]

state_undo(g) ==
    IF Len(g.history) > 0
    THEN undo_popped(g.history[Len(g.history)],
                     [g EXCEPT !.history = SubSeq(g.history, 1, Len(g.history) - 1)])
    ELSE [state |-> g, ret |-> FALSE]

(***************************************************************************)
(* Boards a match is constructed from                                      *)
(***************************************************************************)
MkBoard(rw, rb, mw, mb) ==
    [c \in rw \cup rb \cup mw \cup mb |->
        IF c \in rw THEN Ring("White")
        ELSE IF c \in rb THEN Ring("Black")
        ELSE IF c \in mw THEN Marker("White") ELSE Marker("Black")]

Row(r, q1, q2) == {<<q, r>> : q \in q1 .. q2}

\* Three Black runs and one White run are on the board before the first move.
SeedWin ==
    MkBoard(Row(-3, 0, 3),
            Row(3, -3, -1) \cup {<<3, -1>>, <<-3, 0>>},
            Row(-1, -2, 2) \cup Row(1, -3, -2) \cup Row(1, 1, 2) \cup {<<0, 3>>},
            Row(-2, -1, 3) \cup Row(0, -2, 2) \cup Row(2, -3, 1))

\* A Black ring can jump two Black markers and complete a White row.
SeedFlip ==
    MkBoard({<<-1, 3>>, <<0, -3>>, <<0, 3>>, <<1, -3>>},
            {<<-3, 0>>, <<-3, 3>>, <<0, -2>>, <<3, -3>>, <<3, 0>>},
            {<<-3, 2>>, <<-2, -1>>, <<-2, 0>>, <<-2, 1>>, <<-2, 3>>,
             <<-1, -1>>, <<-1, 0>>, <<-1, 1>>, <<0, 2>>, <<1, -2>>, <<1, 0>>,
             <<1, 2>>, <<2, -3>>, <<2, -1>>, <<2, 0>>, <<2, 1>>, <<3, -1>>},
            {<<-3, 1>>, <<-2, 2>>, <<-1, -2>>, <<-1, 2>>, <<0, -1>>, <<0, 0>>,
             <<1, -1>>, <<2, -2>>, <<3, -2>>})

SeedBoards == {SeedWin, SeedFlip}

(***************************************************************************)
(* Specification                                                           *)
(***************************************************************************)
new(b) == [board |-> b, current_player |-> "White",
           current_phase |-> PhasePlaceRing,
           points_white |-> 0, points_black |-> 0,
           runs_white |-> <<>>, runs_black |-> <<>>,
           history |-> <<>>, last_state_change |-> <<>>]

Assign(g) ==
    /\ board' = g.board
    /\ current_player' = g.current_player
    /\ current_phase' = g.current_phase
    /\ points_white' = g.points_white
    /\ points_black' = g.points_black
    /\ runs_white' = g.runs_white
    /\ runs_black' = g.runs_black
    /\ history' = g.history
    /\ last_state_change' = g.last_state_change

Start(g) ==
    /\ board = g.board
    /\ current_player = g.current_player
    /\ current_phase = g.current_phase
    /\ points_white = g.points_white
    /\ points_black = g.points_black
    /\ runs_white = g.runs_white
    /\ runs_black = g.runs_black
    /\ history = g.history
    /\ last_state_change = g.last_state_change
    /\ last_call = "new"
    /\ ret = FALSE
    /\ before = <<>>
    /\ ui_status = "Idle"
    /\ update_request = TRUE
    /\ animating = FALSE
    /\ ui_action = "NoAction"
    /\ updated = FALSE

Init == \E b \in SeedBoards : Start(new(b))

\* The variables of the state after a call that left state r.state and
\* returned r.ret.
Returned(call, r) ==
    /\ Assign(r.state)
    /\ last_call' = call
    /\ ret' = r.ret
    /\ before' = IF ~r.ret THEN before
                 ELSE IF call = "undo" THEN SubSeq(before, 1, Len(before) - 1)
                 ELSE Append(before, core)

\* A call made on the state alone: the view is not touched.
Return(call, r) == Returned(call, r) /\ UNCHANGED view

\* The calls execute_for_coord(c), c in Inputs, given the enumeration lm of
\* legal_moves(): a call depends on c only through the command found for it.
ExecuteAmong(lm) ==
    \E found \in {find_move(lm, c) : c \in Inputs} :
        /\ found = <<>> \/ Len(history) < MaxHistory
        /\ Return("execute_for_coord", execute_found(Game, found))

ExecuteForCoord == ExecuteAmong(legal_moves(Game))

Undo == Return("undo", state_undo(Game))

Next ==
    \/ ExecuteForCoord
    \/ Undo

Spec == Init /\ [][Next]_vars

(***************************************************************************)
(* Boards built piece by piece (Board::place_unchecked, Board::remove), as  *)
(* main and the tests build them before a match starts                     *)
(***************************************************************************)
EmptyBoard == MkBoard({}, {}, {}, {})

InitEmpty == Start(new(EmptyBoard))

\* The cells and pieces a board is built from.
EditCells == Row(0, 0 - Radius, MaxEdit - Radius - 1)

EditPieces == {Ring("White"), Marker("White"), Marker("Black")}

PlaceUnchecked ==
    \E c \in EditCells, piece \in EditPieces :
        /\ board' = place_unchecked(board, piece, c)
        /\ UNCHANGED <<current_player, current_phase, points_white, points_black,
                       runs_white, runs_black, history, last_state_change,
                       last_call, ret, before, view>>

Remove ==
    \E c \in EditCells :
        /\ board' = remove(board, c)
        /\ UNCHANGED <<current_player, current_phase, points_white, points_black,
                       runs_white, runs_black, history, last_state_change,
                       last_call, ret, before, view>>

NextBoard ==
    \/ PlaceUnchecked
    \/ Remove

SpecBoard == InitEmpty /\ [][NextBoard]_vars

(***************************************************************************)
(* A match from its start: the empty board, and the board main builds      *)
(***************************************************************************)
\* The row of five White markers main puts on the board.
MainBoard == MkBoard({}, {}, Row(0, -2, 2), {})

InitSetup == \E b \in {EmptyBoard, MainBoard} : Start(new(b))

\* The cells a caller clicks: three rows through the middle of the board.
SetupInputs == Row(-1, -2, 3) \cup Row(0, -3, 3) \cup Row(1, -3, 2)

FirstTwo(free) == {free[i] : i \in 1 .. (IF Len(free) < 2 THEN Len(free) ELSE 2)}

\* While rings are placed the caller clicks an occupied cell, a cell outside
\* the board or one of the first two free cells; later any cell.
SetupClicks ==
    IF current_phase = PhasePlaceRing
    THEN (SetupInputs \cap DOMAIN board) \cup OffBoard
         \cup FirstTwo(SortCoords(SetupInputs \ DOMAIN board))
    ELSE SetupInputs \cup OffBoard

SetupAmong(lm) ==
    \E found \in {find_move(lm, c) : c \in SetupClicks} :
        /\ found = <<>> \/ Len(history) < MaxSetupHistory
        /\ Return("execute_for_coord", execute_found(Game, found))

ExecuteSetup == SetupAmong(legal_moves(Game))

NextSetup ==
    \/ ExecuteSetup
    \/ Undo

SpecSetup == InitSetup /\ [][NextSetup]_vars

(***************************************************************************)
(* A match on a board with two lines of four Black markers that meet at a  *)
(* Black ring                                                              *)
(***************************************************************************)
\* The Black ring stands at (-2,-1); the lines run from it along the row and
\* along the column. No run is on the board.
SeedFork ==
    MkBoard({<<0, -3>>, <<0, 3>>, <<3, -3>>, <<3, -1>>},
            {<<-3, 3>>, <<-2, -1>>, <<1, 2>>, <<2, -3>>, <<3, 0>>},
            {<<-3, 2>>, <<-1, 2>>, <<0, -2>>, <<0, 0>>, <<0, 2>>,
             <<1, -2>>, <<1, 1>>, <<2, 0>>},
            {<<-3, 1>>, <<-2, 0>>, <<-2, 1>>, <<-2, 2>>, <<-2, 3>>,
             <<-1, -1>>, <<-1, 0>>, <<-1, 1>>, <<-1, 3>>, <<0, -1>>,
             <<0, 1>>, <<1, -3>>, <<1, -1>>, <<1, 0>>, <<2, -2>>,
             <<2, -1>>, <<2, 1>>, <<3, -2>>})

InitFork == Start(new(SeedFork))

SpecFork == InitFork /\ [][Next]_vars

(***************************************************************************)
(* The driver (core/game.rs): Game::tick on the state of a match           *)
(***************************************************************************)
\* The player main hands to Game::new.
human_player == "White"

\* Game::execute_for_coord once the command anchored at the coordinate has
\* been looked up in legal_moves().
game_execute_found(g, found) ==
    IF found = <<>> THEN [state |-> g, ret |-> FALSE]
    ELSE IF ~is_legal(found[1], g) THEN [state |-> g, ret |-> FALSE]
    ELSE [state |-> execute(found[1], g), ret |-> TRUE]

game_execute_for_coord(g, c) ==
    game_execute_found(g, find_move(legal_moves(g), c))

\* The variables of the state after Game::execute_for_coord left state
\* r.state.
GameReturned(r) ==
    /\ Assign(r.state)
    /\ last_call' = "Game::execute_for_coord"
    /\ ret' = r.ret
    /\ before' = IF r.ret THEN Append(before, core) ELSE before

GameReturn(r) == GameReturned(r) /\ UNCHANGED view

\* Game::tick with UiAction::ActionAtCoord(c), c in Inputs.
TickActionAmong(lm) ==
    \E found \in {find_move(lm, c) : c \in Inputs} :
        /\ current_player = human_player
        /\ found = <<>> \/ Len(before) < MaxDriver
        /\ GameReturn(game_execute_found(Game, found))

TickAction == TickActionAmong(legal_moves(Game))

\* Game::tick with UiAction::Undo.
TickUndo ==
    /\ current_player = human_player
    /\ Return("undo", state_undo(Game))

\* Game::tick when the other player is to move: the opponent applies one
\* command of legal_moves() through State::execute_for_coord.
TickAIAmong(lm) ==
    \E found \in {find_move(lm, c) : c \in Inputs} \ {<<>>} :
        /\ current_player = other(human_player)
        /\ Len(before) < MaxDriver
        /\ Return("execute_for_coord", execute_found(Game, found))

TickAI == TickAIAmong(legal_moves(Game))

NextGame ==
    \/ TickAction
    \/ TickUndo
    \/ TickAI

SpecGame == Init /\ [][NextGame]_vars

(***************************************************************************)
(* The view (frontend/frontend.rs): Frontend::request_update and            *)
(* Frontend::tick, and Game::tick driving the state through it             *)
(***************************************************************************)
\* The Frontend value its methods work on.
View == [ui_status |-> ui_status, update_request |-> update_request,
         animating |-> animating]

\* Frontend::create_animations builds an animated token for a ring moved by
\* Black, a flipped marker, a removed marker, and a removed ring once the
\* phase is PlaceMarker.
Animated(e, g) ==
    \/ e[1] = "RingMoved" /\ e[2] = "Black"
    \/ e[1] = "MarkerFlipped"
    \/ e[1] = "MarkerRemoved"
    \/ e[1] = "RingRemoved" /\ g.current_phase = PhasePlaceMarker

create_animations(g) ==
    \E i \in 1 .. Len(g.last_state_change) : Animated(g.last_state_change[i], g)

request_update(v) == [v EXCEPT !.update_request = TRUE]

\* The elements are rebuilt: the animations are those of the last change.
update_from_state(v, g) == [v EXCEPT !.animating = create_animations(g)]

\* Frontend_tick rebuilding whenever an update is requested, busy or not.
Frontend_rebuild_busy(v, g) ==
    IF v.update_request
    THEN [update_from_state(v, g) EXCEPT !.update_request = FALSE]
    ELSE v

\* The first step of Frontend::tick: the elements are rebuilt when the view
\* is idle and an update is requested.
Frontend_rebuild(v, g) ==
    IF v.ui_status = "Idle" /\ v.update_request
    THEN [update_from_state(v, g) EXCEPT !.update_request = FALSE]
    ELSE v

\* Frontend::tick once the elements have been updated: an animated token
\* reports AnimationInProgress until the clock has passed the end of its
\* animation (fin); the view is then Busy and returns Busy, otherwise it is
\* Idle and returns the user's action.
Frontend_status(v1, fin, user) ==
    IF v1.animating /\ ~fin
    THEN [view |-> [v1 EXCEPT !.ui_status = "Busy"], ret |-> "Busy"]
    ELSE [view |-> [v1 EXCEPT !.ui_status = "Idle", !.animating = FALSE],
          ret |-> user]

Frontend_tick(v, g, fin, user) == Frontend_status(Frontend_rebuild(v, g), fin, user)

\* What the user does in a frame: nothing, a right click, a click on a cell.
UserActions == {"NoAction", "Undo", "ActionAtCoord"}

\* The variables of the view after a tick of the view that left t.view and
\* returned t.ret, and after the requests the driver made in the same tick.
ViewReturned(t, v2) ==
    /\ ui_status' = v2.ui_status
    /\ update_request' = v2.update_request
    /\ animating' = v2.animating
    /\ ui_action' = t.ret
    /\ updated' = (Frontend_rebuild(View, Game) # View)

StateUnchanged ==
    UNCHANGED <<board, current_player, current_phase, points_white, points_black,
                runs_white, runs_black, history, last_state_change,
                last_call, ret, before>>

\* Game::tick when the view is busy: the driver returns at once.
TickBusy ==
    \E user \in UserActions :
        LET t == Frontend_tick(View, Game, FALSE, user)
        IN /\ t.ret = "Busy"
           /\ ViewReturned(t, t.view)
           /\ StateUnchanged

\* The turn of the opponent: one command of legal_moves() applied through
\* State::execute_for_coord, none when there is no legal move.
ai_turn(g, found) ==
    IF found = <<>> THEN [state |-> g, ret |-> FALSE] ELSE execute_found(g, found)

\* Game::tick when the view is not busy and the opponent is to move: the
\* opponent's turn, with a request for an update before and after; the
\* user's action is not looked at.
TickOpponentAmong(lm) ==
    \E fin \in BOOLEAN, user \in UserActions,
       found \in (IF lm = <<>> THEN {<<>>} ELSE {<<lm[i]>> : i \in 1 .. Len(lm)}) :
        LET t == Frontend_tick(View, Game, fin, user)
        IN /\ t.ret # "Busy"
           /\ current_player = other(human_player)
           /\ found = <<>> \/ Len(before) < MaxView
           /\ Returned("execute_for_coord", ai_turn(Game, found))
           /\ ViewReturned(t, request_update(request_update(t.view)))

TickOpponent == TickOpponentAmong(legal_moves(Game))

\* The view after the driver applied the user's action with result r.
AfterAction(t, r) == IF r.ret THEN request_update(t.view) ELSE t.view

\* TickCoordAmong applying the user's command whoever is to move.
TickCoordAmong_anyplayer(lm) ==
    \E fin \in BOOLEAN, found \in {find_move(lm, c) : c \in Inputs} :
        LET t == Frontend_tick(View, Game, fin, "ActionAtCoord")
            r == game_execute_found(Game, found)
        IN /\ t.ret # "Busy"
           /\ found = <<>> \/ Len(before) < MaxView
           /\ GameReturned(r)
           /\ ViewReturned(t, AfterAction(t, r))

\* Game::tick when the view is not busy, the human player is to move and the
\* view returns ActionAtCoord(c), c in Inputs.
TickCoordAmong(lm) ==
    \E fin \in BOOLEAN, found \in {find_move(lm, c) : c \in Inputs} :
        LET t == Frontend_tick(View, Game, fin, "ActionAtCoord")
            r == game_execute_found(Game, found)
        IN /\ t.ret # "Busy"
           /\ current_player = human_player
           /\ found = <<>> \/ Len(before) < MaxView
           /\ GameReturned(r)
           /\ ViewReturned(t, AfterAction(t, r))

TickCoord == TickCoordAmong(legal_moves(Game))

\* Game::tick when the view is not busy, the human player is to move and the
\* view returns Undo.
TickRightClick ==
    \E fin \in BOOLEAN :
        LET t == Frontend_tick(View, Game, fin, "Undo")
            r == state_undo(Game)
        IN /\ t.ret # "Busy"
           /\ current_player = human_player
           /\ Returned("undo", r)
           /\ ViewReturned(t, AfterAction(t, r))

\* Game::tick when the view is not busy, the human player is to move and the
\* view returns NoAction.
TickNoAction ==
    \E fin \in BOOLEAN :
        LET t == Frontend_tick(View, Game, fin, "NoAction")
        IN /\ t.ret # "Busy"
           /\ current_player = human_player
           /\ ViewReturned(t, t.view)
           /\ StateUnchanged

NextTick ==
    \/ TickBusy
    \/ TickOpponent
    \/ TickCoord
    \/ TickRightClick
    \/ TickNoAction

SpecTick == Init /\ [][NextTick]_vars

(***************************************************************************)
(* The view under any caller of the View trait: request_update and tick    *)
(* are called in any order, between calls made on the state                *)
(***************************************************************************)
\* A call of execute_for_coord on the state the view is shown.
ExecuteViewAmong(lm) ==
    \E found \in {find_move(lm, c) : c \in Inputs} :
        /\ found = <<>> \/ Len(history) < MaxView
        /\ Return("execute_for_coord", execute_found(Game, found))

ExecuteView == ExecuteViewAmong(legal_moves(Game))

\* The variables of the state after a call made on the view.
ViewCall(call) ==
    /\ last_call' = call
    /\ UNCHANGED <<board, current_player, current_phase, points_white,
                   points_black, runs_white, runs_black, history,
                   last_state_change, ret, before>>

\* A call of Frontend::request_update.
RequestUpdate ==
    /\ ui_status' = ui_status
    /\ update_request' = request_update(View).update_request
    /\ UNCHANGED <<animating, ui_action, updated>>
    /\ ViewCall("request_update")

\* A call of Frontend::tick in a frame in which the clock has (fin) or has
\* not passed the end of the animations.
ViewTick(fin) ==
    \E user \in UserActions :
        LET t == Frontend_tick(View, Game, fin, user)
        IN ViewReturned(t, t.view) /\ ViewCall("Frontend::tick")

FrontendTick == \E fin \in BOOLEAN : ViewTick(fin)

NextFrontend ==
    \/ ExecuteView
    \/ Undo
    \/ RequestUpdate
    \/ FrontendTick

SpecFrontend == Init /\ [][NextFrontend]_vars

\* The loop of main calls tick in every frame, and the clock passes the end
\* of every animation.
SpecFrontendFair ==
    SpecFrontend /\ WF_vars(FrontendTick) /\ WF_vars(ViewTick(TRUE))

(***************************************************************************)
(* Properties                                                              *)
(***************************************************************************)
Core(g) ==
    <<g.board, g.current_player, g.current_phase, g.points_white, g.points_black>>

\* The fields of State apart from the core: caches, history and change log.
rest == <<runs_white, runs_black, history, last_state_change>>

\* The last command of the history, and whether the last call executed a
\* command of type t.
LastCmd == history[Len(history)]

Did(t) ==
    /\ last_call = "execute_for_coord"
    /\ ret
    /\ Len(history) > 0
    /\ LastCmd.type = t

\* The board and the player to move in which LastCmd was executed.
PrevBoard == before[Len(before)][1]

PrevPlayer == before[Len(before)][2]

\* Every line of five cells that starts on the board.
AllLines == {RunCells(c, Axes[i]) : c \in Coords, i \in 1 .. Len(Axes)}

\* Command values of every type, with every value of the fields the commands
\* read.
CommandValues ==
    {PlaceRing(c) : c \in Inputs}
    \cup {PlaceMarker(c) : c \in Inputs}
    \cup {MoveRing(x[1], x[2], x[3]) : x \in Inputs \X Inputs \X Players}
    \cup {RemoveRun(x[1], x[2], x[2][1]) : x \in (0 .. 1) \X AllLines}
    \cup {RemoveRing(x[1], x[2]) : x \in Inputs \X Players}

HexDist(a, b) == Dist(<<a[1] - b[1], a[2] - b[2]>>)

\* The cells strictly between two cells of one grid line, by distance.
Mid(from, to) ==
    {c \in Coords \ {from, to} :
        HexDist(from, c) + HexDist(c, to) = HexDist(from, to)}

\* C1: in every state, every command value that is legal there, executed and
\* then undone, gives back the board, the phase, the player to move and both
\* scores.
C1_RoundTrip ==
    \A cmd \in CommandValues :
        is_legal(cmd, Game) => Core(undo(cmd, execute(cmd, Game))) = core

C3_RejectedUnchanged ==
    [][(last_call' = "execute_for_coord" /\ ~ret') =>
            UNCHANGED <<core, rest>>]_vars

\* A rejected call in a state with a history and a change log.
C3_Witness ==
    /\ last_call = "execute_for_coord"
    /\ ~ret
    /\ Len(history) > 1
    /\ Len(last_state_change) > 0

\* The positions in lm of the commands anchored at c.
Anchored(lm, c) == {i \in 1 .. Len(lm) : coord(lm[i]) = c}

\* What C4 asks of the call r = execute_for_coord(c), idx being the positions
\* of legal_moves() anchored at c.
C4_Call(lm, idx, r) ==
    /\ r.ret = (idx # {})
    /\ r.ret =>
        /\ \E i \in idx :
            /\ \A j \in idx : i <= j
            /\ r.state.history = Append(history, lm[i])
            /\ Core(r.state) = Core(execute(lm[i], Game))

C4_Among(lm) ==
    \A c \in Inputs : C4_Call(lm, Anchored(lm, c), execute_for_coord(Game, c))

C5_UndoEmpty ==
    [][(last_call' = "undo" /\ Len(history) = 0) =>
            (~ret' /\ UNCHANGED <<core, rest>>)]_vars

\* A refused undo after commands were executed and undone again.
C5_Witness ==
    /\ last_call = "undo"
    /\ ~ret
    /\ Len(history) = 0
    /\ Len(last_state_change) > 0

\* C6: after a ring move, the mover removes a run if the mover has one on the
\* new board; otherwise the opponent removes a run if the opponent has one;
\* otherwise the opponent places a marker.
C6_MoveRingNext ==
    Did("MoveRing") =>
        IF Len(runs(board, PrevPlayer)) > 0
        THEN current_phase = PhaseRemoveRun /\ current_player = PrevPlayer
        ELSE IF Len(runs(board, other(PrevPlayer))) > 0
             THEN /\ current_phase = PhaseRemoveRun
                  /\ current_player = other(PrevPlayer)
             ELSE /\ current_phase = PhasePlaceMarker
                  /\ current_player = other(PrevPlayer)

\* A ring move that completed a row of the opponent only.
C6_Witness ==
    /\ Did("MoveRing")
    /\ Len(runs(board, PrevPlayer)) = 0
    /\ Len(runs(board, other(PrevPlayer))) > 0
    /\ current_player = other(PrevPlayer)

\* C7: after a ring removal that leaves the acting player below three points,
\* the acting player goes on removing runs if a cached run is left; otherwise
\* the turn passes, to RemoveRun if the other player has a cached run and to
\* PlaceMarker if not.
C7_RemoveRingNext ==
    (Did("RemoveRing") /\ get_score(Game, PrevPlayer) < 3) =>
        IF has_run(Game, PrevPlayer)
        THEN current_phase = PhaseRemoveRun /\ current_player = PrevPlayer
        ELSE /\ current_player = other(PrevPlayer)
             /\ current_phase = IF has_run(Game, other(PrevPlayer))
                                THEN PhaseRemoveRun ELSE PhasePlaceMarker

\* A ring removal after which the turn passed to a player with a cached run.
C7_Witness ==
    /\ Did("RemoveRing")
    /\ get_score(Game, PrevPlayer) < 3
    /\ ~has_run(Game, PrevPlayer)
    /\ has_run(Game, other(PrevPlayer))
    /\ current_phase = PhaseRemoveRun

\* C8: a ring removal that brings the acting player to three points ends in
\* PlayerWon(acting player) with the player to move unchanged, pending runs or
\* not; undoing it brings the score to two, the phase to RemoveRing and the
\* ring back on the board.
C8_Win ==
    /\ []((Did("RemoveRing") /\ get_score(Game, PrevPlayer) = 3) =>
            /\ current_phase = PhasePlayerWon(PrevPlayer)
            /\ current_player = PrevPlayer)
    /\ [][(current_phase.name = "PlayerWon" /\ last_call' = "undo") =>
            /\ ret'
            /\ LastCmd.type = "RemoveRing"
            /\ current_phase' = PhaseRemoveRing
            /\ current_player' = current_player
            /\ (IF current_player = "White" THEN points_white'
                ELSE points_black') = 2
            /\ LastCmd.pos \notin DOMAIN board
            /\ LastCmd.pos \in DOMAIN board'
            /\ board'[LastCmd.pos] = Ring(current_player)]_vars

\* A win with runs pending, undone.
C8_Witness ==
    /\ last_call = "undo"
    /\ ret
    /\ current_phase = PhaseRemoveRing
    /\ get_score(Game, current_player) = 2
    /\ Len(runs_white) > 0 \/ Len(runs_black) > 0

\* C9: in PlayerWon legal_moves() is empty, no command value is legal and
\* execute_for_coord returns false for every coordinate; a step that changes
\* any field of the state there is an undo.
C9_Terminal ==
    /\ [](current_phase.name = "PlayerWon" =>
            /\ legal_moves(Game) = <<>>
            /\ \A cmd \in CommandValues : ~is_legal(cmd, Game)
            /\ \A c \in Inputs : ~execute_for_coord(Game, c).ret)
    /\ [][(current_phase.name = "PlayerWon" /\ <<core, rest>>' # <<core, rest>>)
            => (last_call' = "undo" /\ ret')]_vars

\* A call of execute_for_coord made, and refused, in PlayerWon.
C9_Witness ==
    /\ current_phase.name = "PlayerWon"
    /\ last_call = "execute_for_coord"
    /\ ~ret

\* C10: a ring move puts a ring of the mover on the free cell to, toggles
\* the owner of every marker strictly between from and to, and leaves every
\* other cell as it was, the marker at from included.
C10_MoveRingFrame ==
    Did("MoveRing") =>
        /\ LastCmd.to \notin DOMAIN PrevBoard
        /\ DOMAIN board = DOMAIN PrevBoard \cup {LastCmd.to}
        /\ board[LastCmd.to] = Ring(PrevPlayer)
        /\ PrevBoard[LastCmd.from] = Marker(PrevPlayer)
        /\ \A c \in DOMAIN PrevBoard :
            board[c] = IF c \in Mid(LastCmd.from, LastCmd.to)
                          /\ PrevBoard[c].kind = "Marker"
                       THEN Marker(other(PrevBoard[c].owner))
                       ELSE PrevBoard[c]

\* A ring move over markers of both players.
C10_Witness ==
    /\ Did("MoveRing")
    /\ \E c, d \in Mid(LastCmd.from, LastCmd.to) :
        /\ player_marker_at(board, c, "White")
        /\ player_marker_at(board, d, "Black")

Range(seq) == {seq[i] : i \in 1 .. Len(seq)}

\* Two different cells of one grid line.
OnLine(from, to) ==
    /\ to # from
    /\ \/ to[1] = from[1]
       \/ to[2] = from[2]
       \/ to[1] + to[2] = from[1] + from[2]

\* What C11 asks of the command MoveRing(from, to, p), legal being the value
\* of its is_legal.
C11_Value(from, to, legal) ==
    /\ legal = (/\ current_phase.name = "MoveRing"
                /\ current_phase.origin = from
                /\ to \in Range(ring_targets(board, from)))
    /\ legal => (OnLine(from, to) /\ IsValid(to) /\ to \notin DOMAIN board)

\* C11: in every state, MoveRing(from, to, player) is legal exactly when the
\* phase is MoveRing(from) and to is a slide target of from; a legal
\* destination lies on a grid line through from and holds no piece.
C11_MoveRingLegal ==
    \A x \in Inputs \X Inputs \X Players :
        C11_Value(x[1], x[2], is_legal(MoveRing(x[1], x[2], x[3]), Game))

\* A ring is lifted and, on the grid lines through it, one free cell is a
\* target while another free cell, behind a ring or a second row of markers,
\* is not.
C11_Witness ==
    /\ current_phase.name = "MoveRing"
    /\ \E to \in Coords : is_legal(MoveRing(current_phase.origin, to, "White"), Game)
    /\ \E to \in Coords \ DOMAIN board :
        /\ OnLine(current_phase.origin, to)
        /\ ~is_legal(MoveRing(current_phase.origin, to, current_player), Game)

\* C12: on every board and for every origin, every cell of ring_targets(from)
\* is a valid cell that holds no piece and is not from.
C12_TargetsFree ==
    \A from \in Inputs :
        \A t \in Range(ring_targets(board, from)) :
            /\ IsValid(t)
            /\ t \notin DOMAIN board
            /\ t # from

\* A target behind a row of two jumped markers.
C12_Witness ==
    \E from \in EditCells :
        \E t \in Range(ring_targets(board, from)) :
            Cardinality(Mid(from, t) \cap markers(board)) = 2

Sgn(x) == IF x < 0 THEN -1 ELSE IF x > 0 THEN 1 ELSE 0

\* The cells strictly between two cells of one grid line, by stepping.
Inner(from, to) ==
    {Add(from, Times(k, <<Sgn(to[1] - from[1]), Sgn(to[2] - from[2])>>)) :
        k \in 1 .. (HexDist(from, to) - 1)}

\* What C13 asks of the cells mid strictly between from and a target.
C13_Between(from, mid) ==
    /\ \A c \in mid : occupied(board, c).kind # "Ring"
    /\ \A c1, c2 \in mid \cap markers(board) :
        \A c \in mid :
            (HexDist(from, c1) < HexDist(from, c)
             /\ HexDist(from, c) < HexDist(from, c2)) => c \in markers(board)

\* C13: on every board and for every origin, every target lies on a grid line
\* through from, and the cells strictly between hold no ring and at most one
\* contiguous group of markers.
C13_OneJump ==
    \A from \in Inputs :
        \A t \in Range(ring_targets(board, from)) :
            OnLine(from, t) /\ C13_Between(from, Inner(from, t))

\* A slide is stopped by a second row of markers: a target behind the first
\* row, and a free cell of the same line behind the second row that is no
\* target.
C13_Witness ==
    \E from, t, u \in EditCells :
        /\ t \in Range(ring_targets(board, from))
        /\ Mid(from, t) \cap markers(board) # {}
        /\ u \notin DOMAIN board
        /\ t \in Mid(from, u)
        /\ Mid(t, u) \cap markers(board) # {}
        /\ Mid(t, u) \cap rings(board) = {}
        /\ u \notin Range(ring_targets(board, from))

\* Both scores in the state in which LastCmd was executed.
PrevScores == <<before[Len(before)][4], before[Len(before)][5]>>

\* The cached runs of the player to move.
CachedRuns == IF current_player = "White" THEN runs_white ELSE runs_black

\* C14: RemoveRun is legal exactly in phase RemoveRun with a run of the
\* current player's cache; executed, it empties the five cells of the run and
\* nothing else, keeps player and scores and sets the phase RemoveRing;
\* undone, it puts the current player's markers back on the five cells and
\* restores the phase RemoveRun.
C14_RemoveRun ==
    /\ [](\A x \in (0 .. 1) \X AllLines :
            is_legal(RemoveRun(x[1], x[2], x[2][1]), Game)
                = (current_phase = PhaseRemoveRun /\ x[2] \in Range(CachedRuns)))
    /\ [](Did("RemoveRun") =>
            /\ Cardinality(Range(LastCmd.run)) = 5
            /\ Range(LastCmd.run) \subseteq DOMAIN PrevBoard
            /\ DOMAIN board = DOMAIN PrevBoard \ Range(LastCmd.run)
            /\ \A c \in DOMAIN board : board[c] = PrevBoard[c]
            /\ current_player = PrevPlayer
            /\ <<points_white, points_black>> = PrevScores
            /\ current_phase = PhaseRemoveRing)
    /\ [][(last_call' = "undo" /\ Len(history) > 0
           /\ LastCmd.type = "RemoveRun") =>
            /\ ret'
            /\ current_phase' = PhaseRemoveRun
            /\ current_player' = current_player
            /\ DOMAIN board' = DOMAIN board \cup Range(LastCmd.run)
            /\ \A c \in Range(LastCmd.run) : board'[c] = Marker(current_player)
            /\ \A c \in DOMAIN board : board'[c] = board[c]]_vars

\* The removal of one of two cached runs, undone.
C14_Witness ==
    /\ last_call = "undo"
    /\ ret
    /\ current_phase = PhaseRemoveRun
    /\ Len(CachedRuns) > 1
    /\ last_state_change[1][1] = "MarkerPlaced"

\* The scores as <<score of p, score of the other player>>.
ScoresFor(p, pts) == IF p = "White" THEN pts ELSE <<pts[2], pts[1]>>

\* C15: an executed RemoveRing takes the acting player's ring off pos, adds
\* one to the acting player's score and changes no other cell and not the
\* other score; undone, it takes that point back, puts the ring back at pos
\* and makes the acting player current again in phase RemoveRing.
C15_RemoveRing ==
    /\ [](Did("RemoveRing") =>
            /\ LastCmd.pos \in DOMAIN PrevBoard
            /\ PrevBoard[LastCmd.pos] = Ring(PrevPlayer)
            /\ DOMAIN board = DOMAIN PrevBoard \ {LastCmd.pos}
            /\ \A c \in DOMAIN board : board[c] = PrevBoard[c]
            /\ ScoresFor(PrevPlayer, <<points_white, points_black>>)[1]
                = ScoresFor(PrevPlayer, PrevScores)[1] + 1
            /\ ScoresFor(PrevPlayer, <<points_white, points_black>>)[2]
                = ScoresFor(PrevPlayer, PrevScores)[2])
    /\ [][(last_call' = "undo" /\ Len(history) > 0
           /\ LastCmd.type = "RemoveRing") =>
            /\ ret'
            /\ current_phase' = PhaseRemoveRing
            /\ current_player' = PrevPlayer
            /\ ScoresFor(PrevPlayer, <<points_white', points_black'>>)[1]
                = ScoresFor(PrevPlayer, <<points_white, points_black>>)[1] - 1
            /\ ScoresFor(PrevPlayer, <<points_white', points_black'>>)[2]
                = ScoresFor(PrevPlayer, <<points_white, points_black>>)[2]
            /\ DOMAIN board' = DOMAIN board \cup {LastCmd.pos}
            /\ LastCmd.pos \notin DOMAIN board
            /\ board'[LastCmd.pos] = Ring(PrevPlayer)
            /\ \A c \in DOMAIN board : board'[c] = board[c]]_vars

\* The undo of a player's second ring removal.
C15_Witness ==
    /\ last_call = "undo"
    /\ ret
    /\ current_phase = PhaseRemoveRing
    /\ last_state_change[1][1] = "RingPlaced"
    /\ get_score(Game, current_player) = 1

\* C16: in every state, RemoveRing(pos, player) is legal exactly when the
\* phase is RemoveRing, pos holds a ring of the player to move and player is
\* the player to move.
C16_RemoveRingLegal ==
    \A x \in Inputs \X Players :
        is_legal(RemoveRing(x[1], x[2]), Game)
            = (/\ current_phase = PhaseRemoveRing
               /\ x[1] \in DOMAIN board
               /\ board[x[1]] = Ring(current_player)
               /\ x[2] = current_player)

\* Phase RemoveRing with rings of both players on the board: a command
\* naming the other player, and one at the other player's ring, are refused.
C16_Witness ==
    /\ current_phase = PhaseRemoveRing
    /\ \E c \in Coords : is_legal(RemoveRing(c, current_player), Game)
    /\ \E c \in Coords :
        /\ player_ring_at(board, c, current_player)
        /\ ~is_legal(RemoveRing(c, other(current_player)), Game)
    /\ \E c \in Coords :
        /\ player_ring_at(board, c, other(current_player))
        /\ ~is_legal(RemoveRing(c, current_player), Game)

\* C17: PlaceRing(pos) is legal exactly in phase PlaceRing at a valid cell
\* that holds neither a ring nor a marker; executed, it puts a ring of the
\* player to move at pos, changes no other cell and no score and passes the
\* turn; the same command is not legal in the state it produced.
C17_PlaceRing ==
    /\ \A c \in Inputs :
        is_legal(PlaceRing(c), Game)
            = (/\ current_phase = PhasePlaceRing
               /\ IsValid(c)
               /\ c \notin rings(board) \cup markers(board))
    /\ Did("PlaceRing") =>
        /\ LastCmd.pos \notin DOMAIN PrevBoard
        /\ DOMAIN board = DOMAIN PrevBoard \cup {LastCmd.pos}
        /\ board[LastCmd.pos] = Ring(PrevPlayer)
        /\ \A c \in DOMAIN PrevBoard : board[c] = PrevBoard[c]
        /\ <<points_white, points_black>> = PrevScores
        /\ current_player = other(PrevPlayer)
        /\ ~is_legal(LastCmd, Game)

\* A ring placed beside the markers of main's board, with more rings to
\* place: the phase is still PlaceRing and the cell is now occupied.
C17_Witness ==
    /\ Did("PlaceRing")
    /\ current_phase = PhasePlaceRing
    /\ markers(board) # {}
    /\ Cardinality(rings(board)) > 1

\* C18: PlaceMarker(pos) is legal exactly in phase PlaceMarker at a cell that
\* holds a ring of the player to move; executed, it replaces that ring by a
\* marker of the same player and sets the phase MoveRing(pos), and leaves the
\* player to move, both scores and every other cell as they were.
C18_PlaceMarker ==
    /\ \A c \in Inputs :
        is_legal(PlaceMarker(c), Game)
            = (/\ current_phase = PhasePlaceMarker
               /\ c \in DOMAIN board
               /\ board[c] = Ring(current_player))
    /\ Did("PlaceMarker") =>
        /\ LastCmd.pos \in DOMAIN PrevBoard
        /\ PrevBoard[LastCmd.pos] = Ring(PrevPlayer)
        /\ DOMAIN board = DOMAIN PrevBoard
        /\ board[LastCmd.pos] = Marker(PrevPlayer)
        /\ \A c \in DOMAIN board \ {LastCmd.pos} : board[c] = PrevBoard[c]
        /\ current_phase = PhaseMoveRing(LastCmd.pos)
        /\ current_player = PrevPlayer
        /\ <<points_white, points_black>> = PrevScores

\* A marker placed by Black, with rings of White and free cells on the board.
C18_Witness ==
    /\ Did("PlaceMarker")
    /\ current_player = "Black"
    /\ current_phase = PhaseMoveRing(LastCmd.pos)
    /\ \E c \in rings(board) : board[c] = Ring("White")
    /\ Coords \ DOMAIN board # {}

\* The number of rings of player p on the board.
RingCount(p) == Cardinality({c \in DOMAIN board : board[c] = Ring(p)})

\* The state after n ring placements from the start of a match.
AfterPlacements(n) ==
    /\ Cardinality(rings(board)) = n
    /\ RingCount("White") = (n + 1) \div 2
    /\ RingCount("Black") = n \div 2
    /\ current_player = (IF n % 2 = 0 THEN "White" ELSE "Black")
    /\ current_phase = (IF n < 10 THEN PhasePlaceRing ELSE PhasePlaceMarker)
    /\ <<points_white, points_black>> = <<0, 0>>

\* C19: from a new game (White to move, phase PlaceRing, scores 0, empty
\* history) the first ten commands are ring placements; after each of the
\* first nine the phase is still PlaceRing, after the tenth it is PlaceMarker;
\* the turn alternates with every placement, so that each player has placed
\* five rings and White is to move when PlaceMarker begins.
C19_Setup ==
    /\ \A i \in 1 .. Len(history) : i <= 10 => history[i].type = "PlaceRing"
    /\ Len(history) <= 10 => AfterPlacements(Len(history))
    /\ current_phase = PhasePlaceRing => Len(history) < 10

\* The tenth ring has just been placed on the board that started empty.
C19_Witness ==
    /\ Did("PlaceRing")
    /\ Len(history) = 10
    /\ before[1][1] = EmptyBoard
    /\ current_phase = PhasePlaceMarker
    /\ current_player = "White"

\* C20: in every state reached from a new game by execute_for_coord and undo
\* each player has at most five rings on the board.
C20_FiveRings ==
    /\ RingCount("White") <= 5
    /\ RingCount("Black") <= 5

\* Both players have five rings on the board that started empty, and a
\* placement at a free cell is refused.
C20_Witness ==
    /\ RingCount("White") = 5
    /\ RingCount("Black") = 5
    /\ markers(board) = {}
    /\ last_call = "execute_for_coord"
    /\ ~ret
    /\ \E c \in SetupInputs \ DOMAIN board : find_move(legal_moves(Game), c) = <<>>

\* C21: in every state reached by execute_for_coord and undo both scores are
\* between 0 and 3: no point is counted beyond the third and no point is
\* taken from a score of 0.
C21_Scores ==
    /\ points_white \in 0 .. 3
    /\ points_black \in 0 .. 3

\* A player's third point has been counted while the other player has none.
C21_Witness ==
    /\ Did("RemoveRing")
    /\ get_score(Game, PrevPlayer) = 3
    /\ get_score(Game, other(PrevPlayer)) = 0

\* Both cached run lists are the runs of the board.
CachesFresh ==
    /\ runs_white = runs(board, "White")
    /\ runs_black = runs(board, "Black")

\* C22: a successful execute_for_coord or undo, of any kind of command,
\* made where each cached run list equals the runs of the board, leaves each
\* cached run list equal to the runs of the board it produced.
C22_CachesFresh ==
    [][(CachesFresh /\ last_call' \in {"execute_for_coord", "undo"} /\ ret')
        => CachesFresh']_vars

AllLegal(lm) == \A i \in 1 .. Len(lm) : is_legal(lm[i], Game)

\* C23: in every reachable state every command that legal_moves() returns
\* satisfies is_legal in that state.
C23_LegalMovesLegal == AllLegal(legal_moves(Game))

\* A ring is to be removed and several rings can be chosen.
C23_Witness ==
    /\ current_phase = PhaseRemoveRing
    /\ Len(legal_moves(Game)) > 1
    /\ Len(history) > 3

\* lm holds exactly the commands of S, each once.
OnePer(lm, S) == Range(lm) = S /\ Len(lm) = Cardinality(S)

C24_Enumerates(lm) ==
    CASE current_phase = PhasePlaceRing ->
           OnePer(lm, {PlaceRing(c) : c \in Coords \ DOMAIN board})
      [] current_phase = PhasePlaceMarker ->
           OnePer(lm, {PlaceMarker(c) :
                         c \in {d \in DOMAIN board :
                                  board[d] = Ring(current_player)}})
      [] current_phase.name = "MoveRing" ->
           OnePer(lm, {MoveRing(current_phase.origin, t, current_player) :
                         t \in Range(ring_targets(board, current_phase.origin))})
      [] current_phase = PhaseRemoveRun ->
           /\ Len(lm) = Len(CachedRuns)
           /\ \A i \in 1 .. Len(lm) :
                lm[i] = RemoveRun(i - 1, CachedRuns[i], CachedRuns[i][1])
      [] current_phase = PhaseRemoveRing ->
           OnePer(lm, {RemoveRing(c, current_player) :
                         c \in {d \in DOMAIN board :
                                  board[d] = Ring(current_player)}})
      [] OTHER -> current_phase.name = "PlayerWon" /\ lm = <<>>

\* C24: legal_moves() holds only commands of the kind of the active phase,
\* exactly one for every free valid coordinate (PlaceRing), every ring of the
\* player to move (PlaceMarker, RemoveRing), every coordinate of
\* ring_targets(from) (MoveRing(from)), every cached run of the player to move
\* (RemoveRun), and none in PlayerWon.
C24_LegalMoves == C24_Enumerates(legal_moves(Game))

\* Two runs of the player to move are cached and both are offered.
C24_Witness ==
    /\ current_phase = PhaseRemoveRun
    /\ Len(CachedRuns) = 2
    /\ CachedRuns[1] # CachedRuns[2]
    /\ Len(legal_moves(Game)) = 2

\* The n cells from c along axis.
LineCells(c, axis, n) == {Add(c, Times(k, axis)) : k \in 0 .. n - 1}

\* The n cells from c along axis hold markers of p, and the cell before and
\* the cell after them hold none (another piece, no piece, or no cell).
Segment(p, c, axis, n) ==
    /\ LineCells(c, axis, n) \subseteq DOMAIN board
    /\ \A d \in LineCells(c, axis, n) : board[d] = Marker(p)
    /\ \A d \in {Add(c, Times(-1, axis)), Add(c, Times(n, axis))} :
        d \in DOMAIN board => board[d] # Marker(p)

C25_Runs(p, rs) ==
    \A c \in Coords : \A i \in 1 .. Len(Axes) :
        /\ Segment(p, c, Axes[i], 5) =>
            Cardinality({j \in 1 .. Len(rs) : rs[j] = RunCells(c, Axes[i])}) = 1
        /\ Segment(p, c, Axes[i], 4) =>
            \A j \in 1 .. Len(rs) :
                ~(LineCells(c, Axes[i], 4) \subseteq Range(rs[j]))

\* C25: on every board, five contiguous markers of one player on a grid line,
\* bounded at both ends by a cell without a marker of that player or by the
\* edge of the board, are one entry of runs(player), the five coordinates in
\* order; a bounded line of only four such markers lies in no run.
C25_FiveInARow ==
    /\ C25_Runs("White", runs(board, "White"))
    /\ C25_Runs("Black", runs(board, "Black"))

\* Five White markers from the edge of the board, ended by a Black marker,
\* whose neighbour is free.
C25_Witness ==
    /\ Segment("White", <<0 - Radius, 0>>, <<1, 0>>, 5)
    /\ <<5 - Radius, 0>> \in DOMAIN board
    /\ board[<<5 - Radius, 0>>] = Marker("Black")
    /\ <<6 - Radius, 0>> \notin DOMAIN board
    /\ Len(runs(board, "White")) = 1

\* The pairs of cells of one grid line that lie on the row the boards are
\* built on, or on either side of it with one cell of the row between them.
FlipPairs ==
    {x \in (EditCells \cup {c \in Coords : c[2] \in {-1, 1}})
           \X (EditCells \cup {c \in Coords : c[2] \in {-1, 1}}) :
        OnLine(x[1], x[2]) /\ x[1][2] + x[2][2] = 0}

\* What C26 asks of flipped = flip_between(from, to) on the board, mid being
\* the cells strictly between from and to.
C26_Pair(from, to, mid, flipped) ==
    /\ flip_between(flipped, from, to) = board
    /\ DOMAIN flipped = DOMAIN board
    /\ \A c \in DOMAIN board :
        flipped[c] = IF c \in mid /\ board[c].kind = "Marker"
                     THEN Marker(other(board[c].owner))
                     ELSE board[c]

\* C26: on every board and for every two cells from, to of one grid line,
\* flip_between(from, to) applied twice gives the board back, and applied
\* once it toggles the owner of the markers strictly between from and to and
\* changes nothing else: no ring, and no cell becomes occupied or free.
C26_FlipSelfInverse ==
    \A x \in FlipPairs :
        C26_Pair(x[1], x[2], Inner(x[1], x[2]),
                 flip_between(board, x[1], x[2]))

\* Markers of both players and a ring lie strictly between the two ends of
\* the row.
C26_Witness ==
    /\ \E c \in Inner(<<0 - Radius, 0>>, <<Radius, 0>>) :
        c \in DOMAIN board /\ board[c] = Marker("White")
    /\ \E c \in Inner(<<0 - Radius, 0>>, <<Radius, 0>>) :
        c \in DOMAIN board /\ board[c] = Marker("Black")
    /\ \E c \in Inner(<<0 - Radius, 0>>, <<Radius, 0>>) :
        c \in DOMAIN board /\ board[c] = Ring("White")
    /\ <<Radius, 0>> \in DOMAIN board
    /\ flip_between(board, <<0 - Radius, 0>>, <<Radius, 0>>) # board

\* Every coordinate stored in a command.
CmdCoords(cmd) ==
    CASE cmd.type = "MoveRing" -> {cmd.from, cmd.to}
      [] cmd.type = "RemoveRun" -> Range(cmd.run) \cup {cmd.pos}
      [] OTHER -> {cmd.pos}

\* Every coordinate stored in a list of runs.
RunCoords(rs) == UNION {Range(rs[i]) : i \in 1 .. Len(rs)}

\* C27: in every state reached from a new game by execute_for_coord and
\* undo, the occupied cells, the cells of both cached run lists, the origin of
\* a MoveRing phase and the coordinates of every command of the history are
\* valid coordinates of the board; and in every phase execute_for_coord
\* returns false for a coordinate outside the radius.
C27_ValidCoords ==
    /\ \A c \in DOMAIN board : IsValid(c)
    /\ \A c \in RunCoords(runs_white) \cup RunCoords(runs_black) : IsValid(c)
    /\ current_phase.name = "MoveRing" => IsValid(current_phase.origin)
    /\ \A i \in 1 .. Len(history) : \A c \in CmdCoords(history[i]) : IsValid(c)
    /\ \A c \in OffBoard : ~execute_for_coord(Game, c).ret

\* A ring has moved to a cell at the edge of the board, runs are cached, and
\* the call of execute_for_coord that followed has been refused.
C27_Witness ==
    /\ last_call = "execute_for_coord"
    /\ ~ret
    /\ Len(history) > 0
    /\ LastCmd.type = "MoveRing"
    /\ Dist(LastCmd.to) = Radius
    /\ Len(runs_white) + Len(runs_black) > 0

\* C28: a command the driver applies for UiAction::ActionAtCoord becomes the
\* last entry of the history, so that the undo that follows takes exactly
\* that command back.
C28_DriverPushes ==
    [][(last_call' = "Game::execute_for_coord" /\ ret') =>
        /\ Len(history') = Len(history) + 1
        /\ SubSeq(history', 1, Len(history)) = history
        /\ Core(state_undo(Game').state) = core]_vars

\* The positions of the ring moves in the history.
RingMoves == {i \in 1 .. Len(history) : history[i].type = "MoveRing"}

\* C29: ring moves alternate between the players: two ring moves of the
\* history with no ring move between them, whatever run and ring removals lie
\* between them, are moves of different players.
C29_Alternate ==
    \A i \in RingMoves : \A j \in RingMoves :
        (i < j /\ \A k \in RingMoves : ~(i < k /\ k < j))
            => history[i].player # history[j].player

\* The board the match was constructed on.
InitialBoard == IF Len(before) = 0 THEN board ELSE before[1][1]

\* C30: in every state reached from a new game on the empty board by
\* execute_for_coord and undo, legal_moves() is non-empty unless the phase is
\* PlayerWon; so also in MoveRing(from), whatever stands around the ring
\* lifted at from.
C30_NeverStuck ==
    (InitialBoard = EmptyBoard /\ current_phase.name # "PlayerWon")
        => legal_moves(Game) # <<>>

DistinctAnchors(lm) ==
    \A i \in 1 .. Len(lm) : \A j \in 1 .. Len(lm) :
        i # j => coord(lm[i]) # coord(lm[j])

\* C31: in every reachable state no two commands of legal_moves() have the
\* same anchor coordinate, so that execute_for_coord can select each of them,
\* in particular each of several runs offered in phase RemoveRun.
C31_DistinctAnchors == DistinctAnchors(legal_moves(Game))

\* RemoveRun values for every line of five cells and three values of run_idx.
RemoveRunValues == {RemoveRun(x[1], x[2], x[2][1]) : x \in (0 .. 2) \X AllLines}

\* C32: a RemoveRun command whose run_idx is not an index of the cached run
\* list of the player to move is not legal.
C32_RunIdx ==
    \A cmd \in RemoveRunValues :
        cmd.run_idx >= Len(CachedRuns) => ~is_legal(cmd, Game)

\* Every cell of the run holds a marker of player p.
HoldsMarkers(b, p, run) ==
    \A k \in 1 .. Len(run) : player_marker_at(b, run[k], p)

RingSum(p) ==
    IF current_phase.name = "MoveRing" /\ p = current_player THEN 4 ELSE 5

C35_WonIffThree ==
    /\ \A p \in Players :
          current_phase = PhasePlayerWon(p) <=> get_score(Game, p) = 3
    /\ ~(points_white = 3 /\ points_black = 3)

\* A player has won by the third ring removal.
C35_Witness ==
    /\ current_phase.name = "PlayerWon"
    /\ LastCmd.type = "RemoveRing"
    /\ get_score(Game, current_phase.player) = 3
    /\ get_score(Game, other(current_phase.player)) < 3

\* The positions of the ring removals of player p in the history.
RingRemovals(p) ==
    {i \in 1 .. Len(history) :
        history[i].type = "RemoveRing" /\ history[i].player = p}

\* C36: each player's score is the number of RemoveRing commands of that
\* player in the history, and every RemoveRing entry of the history comes
\* right after a RemoveRun entry that the same player executed.
C36_RingAfterRun ==
    /\ Len(before) = Len(history)
    /\ \A p \in Players :
          /\ get_score(Game, p) = Cardinality(RingRemovals(p))
          /\ \A i \in RingRemovals(p) :
                /\ i > 1
                /\ history[i - 1].type = "RemoveRun"
                /\ before[i - 1][2] = p
                /\ before[i][2] = p

\* Both players have removed a run and then a ring.
C36_Witness ==
    /\ RingRemovals("White") # {}
    /\ RingRemovals("Black") # {}
    /\ points_white + points_black >= 2

\* C37: whenever the phase is MoveRing(origin), the cell origin holds a marker
\* of the player to move and the last entry of the history is
\* PlaceMarker(origin); every MoveRing entry of the history comes right after
\* the PlaceMarker entry at its from coordinate.
C37_MoveAfterMarker ==
    /\ current_phase.name = "MoveRing" =>
          /\ player_marker_at(board, current_phase.origin, current_player)
          /\ history # <<>>
          /\ LastCmd = PlaceMarker(current_phase.origin)
    /\ \A i \in RingMoves :
          /\ i > 1
          /\ history[i - 1] = PlaceMarker(history[i].from)

\* A ring move has been taken back: the phase is MoveRing again, after a ring
\* move earlier in the history.
C37_Witness ==
    /\ current_phase.name = "MoveRing"
    /\ last_call = "undo" /\ ret
    /\ RingMoves # {}

\* The states one turn of the opponent can leave, given legal_moves().
OpponentResults(lm) ==
    IF lm = <<>> THEN {Game}
    ELSE {execute_found(Game, <<lm[i]>>).state : i \in 1 .. Len(lm)}

\* The states the user's action can leave, given legal_moves().
UserResults(lm, action) ==
    CASE action = "ActionAtCoord" ->
           {game_execute_found(Game, find_move(lm, c)).state : c \in Inputs}
      [] action = "Undo" -> {state_undo(Game).state}
      [] OTHER -> {Game}

C38_Tick(lm) ==
    /\ ui_action' = "Busy" => Game' = Game
    /\ (ui_action' # "Busy" /\ current_player = other(human_player))
          => Game' \in OpponentResults(lm)
    /\ (ui_action' # "Busy" /\ current_player = human_player)
          => Game' \in UserResults(lm, ui_action')

\* C38: a tick of the driver applies at most one of the opponent's turn, the
\* user's command at a coordinate and an undo: nothing when the view returns
\* Busy; the opponent's turn alone, whatever action the view returned, when
\* the opponent is to move; otherwise the action the view returned alone.
C38_Serialized == [][C38_Tick(legal_moves(Game))]_vars

\* The view returned Undo in the tick in which the opponent applied a command.
C38_Witness ==
    /\ ui_action = "Undo"
    /\ last_call = "execute_for_coord" /\ ret
    /\ LastCmd.type = "MoveRing" /\ LastCmd.player = other(human_player)

\* The step is a call of Frontend::tick.
IsViewTick == last_call' = "Frontend::tick"

C39_Tick ==
    /\ (IsViewTick /\ updated')
          => (ui_status = "Idle" /\ update_request /\ ~update_request')
    /\ (IsViewTick /\ ui_status = "Busy" /\ update_request)
          => (update_request' /\ ~updated')
    /\ (IsViewTick /\ ui_status = "Idle" /\ update_request)
          => (updated' /\ ~update_request')
    /\ (update_request /\ ~update_request') => (IsViewTick /\ updated')

\* C39: Frontend::tick rebuilds the elements only in a tick that starts idle
\* with an update requested, and clears the request when it does; a request
\* made while the view is busy stays pending and is applied by the first
\* tick that starts idle; and, ticks being called for ever and every
\* animation finishing, every request is eventually applied.
C39_Update ==
    /\ [][C39_Tick]_vars
    /\ update_request ~> (updated /\ ~update_request)

\* A tick has left a request pending: it started busy with the request made,
\* the animations have finished in it, and the view is idle for the next tick.
C39_Witness ==
    /\ last_call = "Frontend::tick"
    /\ update_request /\ ~updated
    /\ ui_status = "Idle"
    /\ history # <<>>

====
